---- MODULE Spec2Model ----
(***************************************************************************)
(* Model of the text segmentation core of ob-memo-echo and of the index    *)
(* service built on it:                                                    *)
(*   core/src/chunker.rs        chunk_markdown, extract_headers,           *)
(*                              split_by_headers, recursive_split          *)
(*   core/src/image_context.rs  extract_image_links, extract_context,      *)
(*                              extract_section_context                    *)
(*   core/src/search.rs         index_markdown_file,                       *)
(*                              index_markdown_with_images,                *)
(*                              search_semantic, clear_all                 *)
(*   core/src/db.rs             upsert_batch, search, clear_collection     *)
(*   core/src/embedding.rs      encode, encode_batch                       *)
(*   core/src/api.rs            the search handler                         *)
(*                                                                         *)
(* A text is a sequence of UTF-8 bytes.  A one-byte character is written   *)
(* as itself ("#", " ", "\n", "\r", "a", ...); a multi-byte character is   *)
(* its lead byte "L2", "L3" or "L4" followed by one, two or three          *)
(* continuation bytes "cont".  Byte offsets are 0-based as in the source   *)
(* sequences are 1-based as in TLA+.                                       *)
(***************************************************************************)
EXTENDS Integers, Sequences, FiniteSets, TLC

VARIABLES content,   \* the text handed to the entry point
          op,        \* the entry point that was called, "none" before
          args,      \* its other arguments
          result,    \* what it returned (panic = TRUE: it panicked)
          store,     \* the points of the collection, in insertion order
          requests,  \* the texts the embedder received during the call
          counted    \* the counts returned by the index calls since the
                     \* collection was last cleared, added up

service == <<store, requests, counted>>

vars == <<content, op, args, result, store, requests, counted>>

----------------------------------------------------------------------------
(* Bytes, characters and slices                                            *)

Whitespace == {" ", "\n", "\r", "\t"}

Min(a, b) == IF a <= b THEN a ELSE b
Max(a, b) == IF a >= b THEN a ELSE b

\* char::len_utf8, from the lead byte of the character
len_utf8(b) ==
    CASE b = "L2" -> 2 [] b = "L3" -> 3 [] b = "L4" -> 4 [] OTHER -> 1

\* str::is_char_boundary
is_char_boundary(s, p) ==
    \/ p = 0
    \/ p = Len(s)
    \/ (0 < p /\ p < Len(s) /\ s[p + 1] # "cont")

\* &s[a..b] panics unless SliceOk(s, a, b)
SliceOk(s, a, b) ==
    /\ a <= b
    /\ b <= Len(s)
    /\ is_char_boundary(s, a)
    /\ is_char_boundary(s, b)

Slice(s, a, b) == SubSeq(s, a + 1, b)

\* index (1-based) of the first "\n" at or after from, 0 when there is none
NextNewline(s, from) ==
    IF \E i \in from..Len(s) : s[i] = "\n"
    THEN CHOOSE i \in from..Len(s) :
            s[i] = "\n" /\ \A j \in from..(i - 1) : s[j] # "\n"
    ELSE 0

StripCR(line) ==
    IF Len(line) > 0 /\ line[Len(line)] = "\r"
    THEN SubSeq(line, 1, Len(line) - 1)
    ELSE line

RECURSIVE LinesFrom(_, _)
LinesFrom(s, from) ==
    IF from > Len(s) THEN <<>>
    ELSE LET nl == NextNewline(s, from) IN
         IF nl = 0 THEN <<SubSeq(s, from, Len(s))>>
         ELSE <<StripCR(SubSeq(s, from, nl - 1))>> \o LinesFrom(s, nl + 1)

\* str::lines: split after every "\n"; a line loses its "\n" and then a
\* "\r" before it; a final piece without "\n" is kept as it is
lines(s) == LinesFrom(s, 1)

trim_start(s) ==
    IF \A i \in 1..Len(s) : s[i] \in Whitespace THEN <<>>
    ELSE LET f == CHOOSE i \in 1..Len(s) :
                     s[i] \notin Whitespace
                     /\ \A j \in 1..(i - 1) : s[j] \in Whitespace
         IN SubSeq(s, f, Len(s))

trim_end(s) ==
    IF \A i \in 1..Len(s) : s[i] \in Whitespace THEN <<>>
    ELSE LET l == CHOOSE i \in 1..Len(s) :
                     s[i] \notin Whitespace
                     /\ \A j \in (i + 1)..Len(s) : s[j] \in Whitespace
         IN SubSeq(s, 1, l)

trim(s) == trim_end(trim_start(s))

\* chars().take_while(|c| c == b).count()
CountLeading(s, b) ==
    IF \A i \in 1..Len(s) : s[i] = b THEN Len(s)
    ELSE (CHOOSE i \in 1..Len(s) :
             s[i] # b /\ \A j \in 1..(i - 1) : s[j] = b) - 1

Repeat(b, n) == [i \in 1..n |-> b]

----------------------------------------------------------------------------
(* chunker.rs                                                              *)

\* content.lines().take(line_idx).map(|l| l.len() + 1).sum()
RECURSIVE LinePosition(_, _)
LinePosition(ls, idx) ==
    IF idx <= 1 THEN 0
    ELSE LinePosition(ls, idx - 1) + Len(ls[idx - 1]) + 1

\* HeaderOfLine without the test of the label: a marker-only line is
\* recorded as a heading of empty text
HeaderOfLineKeepingEmpty(ls, idx) ==
    LET trimmed == trim_start(ls[idx]) IN
    IF Len(trimmed) > 0 /\ trimmed[1] = "#"
    THEN LET level == CountLeading(trimmed, "#")
             text  == trim(SubSeq(trimmed, level + 1, Len(trimmed)))
         IN <<[level |-> level, text |-> text,
               position |-> LinePosition(ls, idx)]>>
    ELSE <<>>

\* the body of the loop of extract_headers for one line: the header it
\* pushes, if any
HeaderOfLine(ls, idx) ==
    LET trimmed == trim_start(ls[idx]) IN
    IF Len(trimmed) > 0 /\ trimmed[1] = "#"
    THEN LET level == CountLeading(trimmed, "#")
             text  == trim(SubSeq(trimmed, level + 1, Len(trimmed)))
         IN IF text # <<>>
            THEN <<[level |-> level, text |-> text,
                    position |-> LinePosition(ls, idx)]>>
            ELSE <<>>
    ELSE <<>>

RECURSIVE HeadersFrom(_, _)
HeadersFrom(ls, idx) ==
    IF idx > Len(ls) THEN <<>>
    ELSE HeaderOfLine(ls, idx) \o HeadersFrom(ls, idx + 1)

extract_headers(s) == HeadersFrom(lines(s), 1)

\* the literals of chunk_markdown and split_by_headers
PlainMax == 800
SegmentMax == 850
SplitMax == 800

\* PackEnd that counts bytes where the loop counts whole characters
PackEndBytes(line, b, max_len) == Min(b + max_len, Len(line))

\* the inner while loop of the forced split: the byte offset at which the
\* part that starts at byte b of the line ends.  The loop adds whole
\* characters while the byte count stays <= max_len, so it stops at the
\* last character boundary that is at most max_len bytes after b.
PackEnd(line, b, max_len) ==
    LET m == Min(b + max_len, Len(line))
        d == CHOOSE d \in 0..(m - b) :
                 /\ is_char_boundary(line, m - d)
                 /\ \A e \in 0..(d - 1) : ~is_char_boundary(line, m - e)
    IN m - d

\* CharSplit that stops when less than a full part is left
RECURSIVE CharSplitWholeParts(_, _, _)
CharSplitWholeParts(line, b, max_len) ==
    IF b + max_len > Len(line) THEN <<>>
    ELSE LET e    == PackEnd(line, b, max_len)
             stop == IF e > b THEN e ELSE b + len_utf8(line[b + 1])
         IN <<Slice(line, b, stop)>>
            \o CharSplitWholeParts(line, stop, max_len)

\* the outer while loop of the forced split, from byte b of the line
RECURSIVE CharSplit(_, _, _)
CharSplit(line, b, max_len) ==
    IF b >= Len(line) THEN <<>>
    ELSE LET e    == PackEnd(line, b, max_len)
             stop == IF e > b THEN e ELSE b + len_utf8(line[b + 1])
         IN <<Slice(line, b, stop)>> \o CharSplit(line, stop, max_len)

\* Flush without the trim_end()
FlushUntrimmed(parts, current_chunk) ==
    IF current_chunk # <<>>
    THEN Append(parts, current_chunk)
    ELSE parts

\* parts.push(current_chunk.trim_end()) unless current_chunk is empty
Flush(parts, current_chunk) ==
    IF current_chunk # <<>>
    THEN Append(parts, trim_end(current_chunk))
    ELSE parts

\* the for loop of recursive_split over the lines, from line k on
RECURSIVE SplitLines(_, _, _, _, _)
SplitLines(ls, k, parts, current_chunk, max_len) ==
    IF k > Len(ls) THEN Flush(parts, current_chunk)
    ELSE LET line == ls[k]
             line_with_newline == Append(line, "\n")
         IN IF Len(current_chunk) + Len(line_with_newline) > max_len
            THEN IF Len(line) > max_len
                 THEN SplitLines(ls, k + 1,
                          Flush(parts, current_chunk)
                              \o CharSplit(line, 0, max_len),
                          <<>>, max_len)
                 ELSE SplitLines(ls, k + 1, Flush(parts, current_chunk),
                          line_with_newline, max_len)
            ELSE SplitLines(ls, k + 1, parts,
                     current_chunk \o line_with_newline, max_len)

recursive_split(s, max_len) ==
    IF Len(s) <= max_len THEN <<s>>
    ELSE SplitLines(lines(s), 1, <<>>, <<>>, max_len)

\* PartsToChunks that counts one byte more per part, for a line terminator
RECURSIVE PartsToChunksCountingNewline(_, _, _)
PartsToChunksCountingNewline(parts, pos, header_path) ==
    IF parts = <<>> THEN <<>>
    ELSE LET end == pos + Len(Head(parts)) + 1 IN
         <<[content |-> Head(parts), header_path |-> header_path,
            start_pos |-> pos, end_pos |-> end]>>
         \o PartsToChunksCountingNewline(Tail(parts), end, header_path)

\* PartsToChunks that starts every part at the start of the segment
RECURSIVE PartsToChunksNoAdvance(_, _, _)
PartsToChunksNoAdvance(parts, pos, header_path) ==
    IF parts = <<>> THEN <<>>
    ELSE <<[content |-> Head(parts), header_path |-> header_path,
            start_pos |-> pos, end_pos |-> pos + Len(Head(parts))]>>
         \o PartsToChunksNoAdvance(Tail(parts), pos, header_path)

\* the loops that turn the parts of a re-split segment into chunks
RECURSIVE PartsToChunks(_, _, _)
PartsToChunks(parts, pos, header_path) ==
    IF parts = <<>> THEN <<>>
    ELSE LET end == pos + Len(Head(parts)) IN
         <<[content |-> Head(parts), header_path |-> header_path,
            start_pos |-> pos, end_pos |-> end]>>
         \o PartsToChunks(Tail(parts), end, header_path)

\* format!("{} {}", "#".repeat(h.level), h.text)
FormatHeader(h) == Repeat("#", h.level) \o <<" ">> \o h.text

\* PopClosed with > for >=: a heading no longer closes its open siblings
RECURSIVE PopDeeper(_, _)
PopDeeper(path_stack, level) ==
    IF path_stack # <<>> /\ path_stack[Len(path_stack)][1] > level
    THEN PopDeeper(SubSeq(path_stack, 1, Len(path_stack) - 1), level)
    ELSE path_stack

\* while let Some(&(level, _)) = path_stack.last() { if level >= ... pop }
RECURSIVE PopClosed(_, _)
PopClosed(path_stack, level) ==
    IF path_stack # <<>> /\ path_stack[Len(path_stack)][1] >= level
    THEN PopClosed(SubSeq(path_stack, 1, Len(path_stack) - 1), level)
    ELSE path_stack

\* for j in 0..=i, on a stack that starts empty for every i
RECURSIVE PathLoop(_, _, _, _)
PathLoop(headers, j, i, path_stack) ==
    IF j > i THEN path_stack
    ELSE PathLoop(headers, j + 1, i,
             Append(PopClosed(path_stack, headers[j].level),
                    <<headers[j].level, FormatHeader(headers[j])>>))

\* HeaderPath that lists every heading seen so far, closed or not
HeaderPathAllSeen(headers, i) == [k \in 1..i |-> FormatHeader(headers[k])]

HeaderPath(headers, i) ==
    LET path_stack == PathLoop(headers, 1, i, <<>>) IN
    [k \in 1..Len(path_stack) |-> path_stack[k][2]]

\* SegmentEnd that runs on to the next heading of the same or a shallower
\* level, so that a parent's segment swallows its subheadings
SegmentEndSkipsDeeper(s, headers, i) ==
    LET closers == {j \in (i + 1)..Len(headers) :
                       headers[j].level <= headers[i].level}
    IN IF closers = {} THEN Len(s)
       ELSE headers[CHOOSE j \in closers : \A l \in closers : j <= l].position

SegmentEnd(s, headers, i) ==
    IF i < Len(headers) THEN headers[i + 1].position ELSE Len(s)

\* &content[header.position..end_pos] panics
SegmentPanics(s, headers, i) ==
    ~SliceOk(s, headers[i].position, SegmentEnd(s, headers, i))

\* SegmentChunks that trims the end of an un-split segment
SegmentChunksTrimmed(s, headers, i) ==
    LET header        == headers[i]
        end_pos       == SegmentEnd(s, headers, i)
        chunk_content == Slice(s, header.position, end_pos)
        header_path   == HeaderPath(headers, i)
    IN IF Len(chunk_content) > SegmentMax
       THEN PartsToChunks(recursive_split(chunk_content, SplitMax),
                          header.position, header_path)
       ELSE <<[content |-> trim_end(chunk_content),
               header_path |-> header_path,
               start_pos |-> header.position, end_pos |-> end_pos]>>

\* SegmentChunks that re-splits with the segment threshold as max_len
SegmentChunksWideParts(s, headers, i) ==
    LET header        == headers[i]
        end_pos       == SegmentEnd(s, headers, i)
        chunk_content == Slice(s, header.position, end_pos)
        header_path   == HeaderPath(headers, i)
    IN IF Len(chunk_content) > SegmentMax
       THEN PartsToChunks(recursive_split(chunk_content, SegmentMax),
                          header.position, header_path)
       ELSE <<[content |-> chunk_content, header_path |-> header_path,
               start_pos |-> header.position, end_pos |-> end_pos]>>

\* the chunks pushed by one iteration of the loop of split_by_headers
SegmentChunks(s, headers, i) ==
    LET header        == headers[i]
        end_pos       == SegmentEnd(s, headers, i)
        chunk_content == Slice(s, header.position, end_pos)
        header_path   == HeaderPath(headers, i)
    IN IF Len(chunk_content) > SegmentMax
       THEN PartsToChunks(recursive_split(chunk_content, SplitMax),
                          header.position, header_path)
       ELSE <<[content |-> chunk_content, header_path |-> header_path,
               start_pos |-> header.position, end_pos |-> end_pos]>>

RECURSIVE ChunksFrom(_, _, _)
ChunksFrom(s, headers, i) ==
    IF i > Len(headers) THEN <<>>
    ELSE SegmentChunks(s, headers, i) \o ChunksFrom(s, headers, i + 1)

Returned(v) == [panic |-> FALSE, value |-> v]
Panicked == [panic |-> TRUE, value |-> <<>>]

\* split_by_headers that also returns the text before the first heading
SplitKeepingPreamble(s, headers) ==
    IF \E i \in 1..Len(headers) : SegmentPanics(s, headers, i)
    THEN Panicked
    ELSE IF headers[1].position > 0 /\ SliceOk(s, 0, headers[1].position)
    THEN Returned(<<[content |-> Slice(s, 0, headers[1].position),
                     header_path |-> <<>>, start_pos |-> 0,
                     end_pos |-> headers[1].position]>>
                  \o ChunksFrom(s, headers, 1))
    ELSE Returned(ChunksFrom(s, headers, 1))

split_by_headers(s, headers) ==
    IF \E i \in 1..Len(headers) : SegmentPanics(s, headers, i)
    THEN Panicked
    ELSE Returned(ChunksFrom(s, headers, 1))

\* chunk_markdown without the early return for the empty text
ChunkMarkdownNoEarlyReturn(s) ==
    LET headers == extract_headers(s) IN
    IF headers = <<>>
    THEN IF Len(s) <= PlainMax
         THEN Returned(<<[content |-> s, header_path |-> <<>>,
                          start_pos |-> 0, end_pos |-> Len(s)]>>)
         ELSE Returned(PartsToChunks(recursive_split(s, SplitMax), 0, <<>>))
    ELSE split_by_headers(s, headers)

chunk_markdown(s) ==
    IF s = <<>> THEN Returned(<<>>)
    ELSE LET headers == extract_headers(s) IN
         IF headers = <<>>
         THEN IF Len(s) <= PlainMax
              THEN Returned(<<[content |-> s, header_path |-> <<>>,
                               start_pos |-> 0, end_pos |-> Len(s)]>>)
              ELSE Returned(PartsToChunks(recursive_split(s, SplitMax),
                                          0, <<>>))
         ELSE split_by_headers(s, headers)

----------------------------------------------------------------------------
(* image_context.rs                                                        *)

\* the number of whitespace characters s starts with
LeadingWhitespace(s) ==
    IF \A i \in 1..Len(s) : s[i] \in Whitespace THEN Len(s)
    ELSE (CHOOSE i \in 1..Len(s) :
             s[i] \notin Whitespace
             /\ \A j \in 1..(i - 1) : s[j] \in Whitespace) - 1

\* (?m)^ at byte p: the start of the haystack or just after a "\n"
LineStart(s, p) == p = 0 \/ (0 < p /\ p <= Len(s) /\ s[p] = "\n")

Least(S) == CHOOSE x \in S : \A y \in S : x <= y
Greatest(S) == CHOOSE x \in S : \A y \in S : y <= x

NoMatch == [ok |-> FALSE, start |-> 0, level |-> 0, end |-> 0]

\* (.+)$ : the match runs to the end of the line, the byte before the
\* "\n" at index nl or the end of the haystack when nl = 0
EndOfLine(s, nl) == IF nl = 0 THEN Len(s) ELSE nl - 1

\* \s+ : the numbers of characters it can take from the whitespace run that
\* rest starts with so that a character other than "\n" is left for .+
HeaderReTakes(rest, spaces) ==
    {j \in 1..spaces : j < Len(rest) /\ rest[j + 1] # "\n"}

HeaderReSpaces(rest) == HeaderReTakes(rest, LeadingWhitespace(rest))

\* the match at byte p, given the run of "#" there and what \s+ can take;
\* \s+ is greedy and takes the most it can
HeaderReMatch(s, p, hashes, takes) ==
    IF LineStart(s, p) /\ hashes \in 1..6 /\ takes # {}
    THEN [ok |-> TRUE, start |-> p, level |-> hashes,
          end |-> EndOfLine(s,
                      NextNewline(s, p + hashes + Greatest(takes) + 1))]
    ELSE NoMatch

\* (#{1,6}) must take the whole run of "#", since whitespace has to follow
HeaderReHashes(s, p, hashes) ==
    HeaderReMatch(s, p, hashes,
                  HeaderReSpaces(SubSeq(s, p + hashes + 1, Len(s))))

\* header_re = (?m)^(#{1,6})\s+(.+)$ tried at byte p of s
HeaderReAt(s, p) ==
    HeaderReHashes(s, p, CountLeading(SubSeq(s, p + 1, Len(s)), "#"))

FirstOf(s, starts) ==
    IF starts = {} THEN NoMatch ELSE HeaderReAt(s, Least(starts))

\* Regex::captures_at: the leftmost match that starts at or after from
FirstMatch(s, from) ==
    FirstOf(s, {p \in from..(Len(s) - 1) :
                   s[p + 1] = "#" /\ HeaderReAt(s, p).ok})

\* Regex::captures_iter: the successive non-overlapping matches
RECURSIVE MatchesFrom(_, _)
MatchesAfter(s, m) ==
    IF m.ok THEN <<m>> \o MatchesFrom(s, m.end) ELSE <<>>

MatchesFrom(s, from) == MatchesAfter(s, FirstMatch(s, from))

captures_iter(s) == MatchesFrom(s, 0)

ClosingAt(ms, hits) == IF hits = {} THEN -1 ELSE ms[Least(hits)].start

ClosingOf(ms, current_level) ==
    ClosingAt(ms, {k \in 1..Len(ms) : ms[k].level <= current_level})

\* the for loop over captures_iter(&content[header_start + 1..]): the
\* start, within that slice, of the first match whose level <= the current
\* one; -1 when the loop ends without a break
ClosingMatch(tail, current_level) ==
    ClosingOf(captures_iter(tail), current_level)

\* .map(|m| m.as_str().len()).unwrap_or(1)
CurrentLevel(first) == IF first.ok THEN first.level ELSE 1

SectionEnd(s, header_start, closing) ==
    IF closing = -1 THEN Len(s) ELSE header_start + 1 + closing

\* content[header_start..section_end].to_string()
SectionSlice(s, header_start, section_end) ==
    IF SliceOk(s, header_start, section_end)
    THEN Returned(Slice(s, header_start, section_end))
    ELSE Panicked

SectionTo(s, header_start, current_level) ==
    SectionSlice(s, header_start,
        SectionEnd(s, header_start,
            ClosingMatch(Slice(s, header_start + 1, Len(s)),
                         current_level)))

\* the branch taken when a heading was found before the image
SectionOf(s, header_start) ==
    IF SliceOk(s, header_start, Len(s))
       /\ SliceOk(s, header_start + 1, Len(s))
    THEN SectionTo(s, header_start,
             CurrentLevel(FirstMatch(Slice(s, header_start, Len(s)), 0)))
    ELSE Panicked

\* .captures_iter(before_image).last(), and the two branches on it
SectionAfter(s, found) ==
    IF found = <<>> THEN Returned(s)
    ELSE SectionOf(s, found[Len(found)].start)

extract_section_context(s, image_pos) ==
    IF SliceOk(s, 0, image_pos)
    THEN SectionAfter(s, captures_iter(Slice(s, 0, image_pos)))
    ELSE Panicked

\* content.chars().collect(): one entry per character, its lead byte
chars(s) == SelectSeq(s, LAMBDA b : b # "cont")

\* the bytes of the characters cs[from + 1 .. to] (0-based, half open)
RECURSIVE CollectChars(_, _, _)
CollectChars(cs, from, to) ==
    IF from >= to THEN <<>>
    ELSE <<cs[from + 1]>> \o Repeat("cont", len_utf8(cs[from + 1]) - 1)
         \o CollectChars(cs, from + 1, to)

\* the for loop of extract_context: char_pos when it ends
RECURSIVE CharPosLoop(_, _, _, _)
CharPosLoop(cs, i, byte_count, image_pos) ==
    IF i >= Len(cs) THEN 0
    ELSE IF byte_count >= image_pos THEN i
    ELSE CharPosLoop(cs, i + 1, byte_count + len_utf8(cs[i + 1]), image_pos)

extract_context(s, image_pos, context_chars) ==
    LET cs         == chars(s)
        char_pos   == CharPosLoop(cs, 0, 0, image_pos)
        start_char == IF char_pos > context_chars
                      THEN char_pos - context_chars ELSE 0
        end_char   == Min(char_pos + context_chars, Len(cs))
    IN IF start_char <= end_char
       THEN Returned(CollectChars(cs, start_char, end_char))
       ELSE Panicked

\* index (1-based) of the first byte b at or after from, 0 when none
NextOf(s, from, b) ==
    IF \E i \in from..Len(s) : s[i] = b
    THEN CHOOSE i \in from..Len(s) :
            s[i] = b /\ \A j \in from..(i - 1) : s[j] # b
    ELSE 0

NoLink == [ok |-> FALSE, start |-> 0, end |-> 0, path |-> <<>>]

\* the rest of obsidian_re after "![[": q is the first "]" after it; the
\* path ([^\]]+) is what lies between and "]]" must follow it
ObsidianClose(s, p, q) ==
    IF q >= p + 5 /\ q + 1 <= Len(s) /\ s[q + 1] = "]"
    THEN [ok |-> TRUE, start |-> p, end |-> q + 1,
          path |-> SubSeq(s, p + 4, q - 1)]
    ELSE NoLink

\* obsidian_re = !\[\[([^\]]+)\]\] tried at byte p of s
ObsidianAt(s, p) ==
    IF p + 3 <= Len(s) /\ s[p + 1] = "!" /\ s[p + 2] = "[" /\ s[p + 3] = "["
    THEN ObsidianClose(s, p, NextOf(s, p + 4, "]"))
    ELSE NoLink

\* the end of markdown_re: r is the first ")" after "](" at q; the path
\* ([^)]+) is what lies between
MarkdownPath(s, p, q, r) ==
    IF r >= q + 3
    THEN [ok |-> TRUE, start |-> p, end |-> r,
          path |-> SubSeq(s, q + 2, r - 1)]
    ELSE NoLink

\* the rest of markdown_re after "![": q is the first "]" after it, the
\* alt text ([^\]]*) lies between and "(" must follow
MarkdownClose(s, p, q) ==
    IF q >= p + 3 /\ q + 1 <= Len(s) /\ s[q + 1] = "("
    THEN MarkdownPath(s, p, q, NextOf(s, q + 2, ")"))
    ELSE NoLink

\* markdown_re = !\[([^\]]*)\]\(([^)]+)\) tried at byte p of s
MarkdownAt(s, p) ==
    IF p + 2 <= Len(s) /\ s[p + 1] = "!" /\ s[p + 2] = "["
    THEN MarkdownClose(s, p, NextOf(s, p + 3, "]"))
    ELSE NoLink

LinkAt(kind, s, p) ==
    IF kind = "Obsidian" THEN ObsidianAt(s, p) ELSE MarkdownAt(s, p)

FirstLinkOf(kind, s, starts) ==
    IF starts = {} THEN NoLink ELSE LinkAt(kind, s, Least(starts))

\* the leftmost match of the pattern that starts at or after from
FirstLink(kind, s, from) ==
    FirstLinkOf(kind, s, {p \in from..(Len(s) - 1) :
                             s[p + 1] = "!" /\ LinkAt(kind, s, p).ok})

\* the for loop over captures_iter(content) of one pattern: the links it
\* pushes, one for every successive non-overlapping match
RECURSIVE LinksFrom(_, _, _)
LinksAfter(kind, s, m) ==
    IF m.ok
    THEN <<[path |-> m.path, position |-> m.start, context |-> <<>>,
            syntax_type |-> kind]>> \o LinksFrom(kind, s, m.end)
    ELSE <<>>

LinksFrom(kind, s, from) == LinksAfter(kind, s, FirstLink(kind, s, from))

\* one step of the stable sort: x goes after the entries whose position
\* is not larger
InsertLink(sorted, x) ==
    SelectSeq(sorted, LAMBDA l : l.position <= x.position)
        \o <<x>>
        \o SelectSeq(sorted, LAMBDA l : l.position > x.position)

\* links.sort_by_key(|link| link.position)
RECURSIVE sort_by_key(_)
sort_by_key(links) ==
    IF links = <<>> THEN <<>>
    ELSE InsertLink(sort_by_key(SubSeq(links, 1, Len(links) - 1)),
                    links[Len(links)])

\* extract_image_links without the final sort
LinksInPassOrder(s) ==
    LinksFrom("Obsidian", s, 0) \o LinksFrom("Markdown", s, 0)

extract_image_links(s) ==
    sort_by_key(LinksFrom("Obsidian", s, 0) \o LinksFrom("Markdown", s, 0))

----------------------------------------------------------------------------
(* The input texts                                                         *)

MaxLines == 4        \* lines of a generated document
MaxMarkerLines == 2  \* lines of a document of marker edge cases
MaxChars == 4        \* characters of a generated single string
MaxSplitLen == 4     \* largest small max_len handed to recursive_split
MaxWindow == 2       \* largest context_chars handed to extract_context
MaxLinkPieces == 3   \* pieces of a generated text with image links
MaxAround == 8       \* characters on either side of a lone image link

LF == <<"\n">>
CRLF == <<"\r", "\n">>
Wide2 == <<"L2", "cont">>
Wide3 == <<"L3", "cont", "cont">>
Wide4 == <<"L4", "cont", "cont", "cont">>

\* documents of at most n lines, every line ended by a terminator
RECURSIVE Terminated(_, _, _)
Terminated(bodies, terms, n) ==
    IF n = 0 THEN {<<>>}
    ELSE LET prev == Terminated(bodies, terms, n - 1) IN
         prev \cup {t \o b \o e : t \in prev, b \in bodies, e \in terms}

\* documents of at most n lines, the last one with or without terminator
LineTexts(bodies, terms, n) ==
    Terminated(bodies, terms, n)
        \cup {t \o b : t \in Terminated(bodies, terms, n - 1), b \in bodies}

\* strings of at most n characters
RECURSIVE CharTexts(_, _)
CharTexts(alphabet, n) ==
    IF n = 0 THEN {<<>>}
    ELSE LET prev == CharTexts(alphabet, n - 1) IN
         prev \cup {t \o c : t \in prev, c \in alphabet}

\* k copies of the character c
RepeatChar(c, k) == [i \in 1..(k * Len(c)) |-> c[((i - 1) % Len(c)) + 1]]

\* blank lines, multi-byte characters and headings under both terminators
TerminatorBodies == {<<>>, Wide2, <<"#", "a">>}

\* nested headings and body text
HeadingBodies ==
    {<<"#", " ", "a">>, <<"#", "#", " ", "b">>,
     <<"#", "#", "#", " ", "c">>, <<"x">>}

\* candidate heading lines at the edge of the detection rule
MarkerBodies ==
    {<<" ", "#", " ", "a">>, <<"#", "a">>, <<"#">>, <<"#", " ">>,
     <<"#", " ", " ">>, <<"#", " ", "a", " ">>, <<"#", "#", " ", "a">>,
     <<"#", "#", "#", "#", "#", "#", "#", " ", "a">>, <<"a">>, <<>>}

\* "# A\n\nfoo\n\n## B\n\nbar\n"
DocTwoSections ==
    <<"#", " ", "A", "\n", "\n", "f", "o", "o", "\n", "\n",
      "#", "#", " ", "B", "\n", "\n", "b", "a", "r", "\n">>

\* "# A\n\nx\n\n## B\n\ny\n\n## C\n\nz\n"
DocThreeSections ==
    <<"#", " ", "A", "\n", "\n", "x", "\n", "\n",
      "#", "#", " ", "B", "\n", "\n", "y", "\n", "\n",
      "#", "#", " ", "C", "\n", "\n", "z", "\n">>

\* lines of heading markers and whitespace only
MarkerOnlyLines ==
    {<<"#">>, <<"#", " ">>, <<"#", "#">>, <<" ", "#">>,
     <<"#", "#", "#", " ", "\t">>}

\* a marker-only line on its own, under a heading and before a heading
MarkerOnlyDocs ==
    {a \o m \o LF \o b :
        a \in {<<>>, <<"#", " ", "a", "\n">>, <<"#", "#", " ", "b", "\n">>},
        m \in MarkerOnlyLines,
        b \in {<<>>, <<"#", "#", " ", "b", "\n">>, <<"#", " ", "a", "\n">>,
               <<"x", "\n">>}}

ShortTexts ==
    LineTexts(TerminatorBodies, {LF, CRLF}, MaxLines)
        \cup LineTexts(HeadingBodies, {LF}, MaxLines)
        \cup LineTexts(MarkerBodies, {LF}, MaxMarkerLines)
        \cup MarkerOnlyDocs
        \cup {DocTwoSections, DocThreeSections}

\* single runs around the 800 and 850 byte thresholds
LongRuns ==
    {Repeat("a", n) : n \in {SplitMax - 1, SplitMax, SplitMax + 1,
                             SegmentMax - 4, SegmentMax - 3, 2000}}
        \cup {RepeatChar(Wide3, k) : k \in {266, 267, 283, 284}}
        \cup {Repeat(" ", n) : n \in {SplitMax - 1, SplitMax, 2 * SplitMax + 1}}
        \cup {Repeat("#", SplitMax + 1)}
        \cup {<<"a">> \o RepeatChar(Wide3, 267)}

LongHeads ==
    {<<>>, <<"x", "\n">>, <<"#", " ", "a", "\n">>,
     <<"#", " ", "a", "\n", "#", "#", " ", "b", "\n">>}

LongSeps == {<<>>, LF, CRLF, <<" ", "\n">>}

LongTails ==
    {<<>>, <<"b">>, <<"#", "#", " ", "b", "\n", "x">>,
     Repeat("a", SplitMax), Repeat(" ", SplitMax - 1) \o LF,
     <<"#", " ", "c", "\n">> \o Repeat("a", SegmentMax - 3)}

LongTexts ==
    {h \o r \o e \o t :
        h \in LongHeads, r \in LongRuns, e \in LongSeps, t \in LongTails}

ChunkTexts == ShortTexts \cup LongTexts

SplitChars == {<<"a">>, <<" ">>, LF, <<"\r">>, Wide2, Wide4}

SplitInputs ==
    (CharTexts(SplitChars, MaxChars) \X (1..MaxSplitLen))
        \cup (LongTexts \X {SplitMax})

\* documents of conventional heading lines and body text
SectionTexts ==
    LineTexts(HeadingBodies, {LF}, MaxLines)
        \cup {DocTwoSections, DocThreeSections}

\* documents of unconventional heading lines and multi-byte characters
SectionEdgeTexts == LineTexts(MarkerBodies \cup {Wide2}, {LF}, MaxMarkerLines)

ContextTexts == CharTexts({<<"a">>, Wide2, Wide4}, MaxChars)

\* whole links of both syntaxes, a link inside a link, and loose delimiters
LinkPieces ==
    {<<"!", "[", "[", "a", "]", "]">>,
     <<"!", "[", "b", "]", "(", "c", ")">>,
     <<"!", "[", "]", "(", "c", ")">>,
     <<"!", "[", "b", "]", "(", "!", "[", "[", "a", "]", "]", ")">>,
     <<"!", "[", "[">> \o Wide2 \o <<"]", "]">>,
     <<"!", "[", "[">>, <<"]", "]">>, <<"]", "(", "c", ")">>, <<"x", "\n">>}

LinkTexts == CharTexts(LinkPieces, MaxLinkPieces)

\* "![[image.png]]", the link of test_context_extraction
TestLink ==
    <<"!", "[", "[", "i", "m", "a", "g", "e", ".", "p", "n", "g", "]", "]">>

\* context_chars of test_context_extraction
TestWindow == 10

\* one image link between two runs of three-byte characters
LinkContextTexts ==
    {RepeatChar(Wide3, b) \o link \o RepeatChar(Wide3, a) :
        b \in 0..MaxAround, a \in 0..MaxAround,
        link \in {TestLink, <<"!", "[", "[", "a", "]", "]">>}}

----------------------------------------------------------------------------
(* The state machine: one call of one entry point on one input             *)

NoArgs ==
    [image_pos |-> 0, context_chars |-> 0, max_len |-> 0,
     file_path |-> <<>>, point_type |-> "", limit |-> 0]
NoResult == [panic |-> FALSE, value |-> <<>>]

Start(texts) ==
    /\ content \in texts
    /\ op = "none"
    /\ args = NoArgs
    /\ result = NoResult
    /\ store = <<>>
    /\ requests = <<>>
    /\ counted = 0

Init == Start(ChunkTexts)

InitSplit ==
    /\ \E in \in SplitInputs :
          /\ content = in[1]
          /\ args = [NoArgs EXCEPT !.max_len = in[2]]
    /\ op = "none"
    /\ result = NoResult
    /\ store = <<>>
    /\ requests = <<>>
    /\ counted = 0

InitSection == Start(SectionTexts)

InitSectionEdge == Start(SectionEdgeTexts)

InitContext == Start(ContextTexts)

InitLinks == Start(LinkTexts)

InitLinkContext == Start(LinkContextTexts)

CallChunkMarkdown ==
    /\ op = "none"
    /\ op' = "chunk_markdown"
    /\ result' = chunk_markdown(content)
    /\ UNCHANGED <<content, args, service>>

CallExtractHeaders ==
    /\ op = "none"
    /\ op' = "extract_headers"
    /\ result' = Returned(extract_headers(content))
    /\ UNCHANGED <<content, args, service>>

CallRecursiveSplit ==
    /\ op = "none"
    /\ op' = "recursive_split"
    /\ result' = Returned(recursive_split(content, args.max_len))
    /\ UNCHANGED <<content, args, service>>

CallExtractSectionContext ==
    /\ op = "none"
    /\ \E image_pos \in 0..Len(content) :
          /\ args' = [args EXCEPT !.image_pos = image_pos]
          /\ result' = extract_section_context(content, image_pos)
    /\ op' = "extract_section_context"
    /\ UNCHANGED <<content, service>>

CallExtractContext ==
    /\ op = "none"
    /\ \E image_pos \in 0..Len(content), context_chars \in 0..MaxWindow :
          /\ args' = [args EXCEPT !.image_pos = image_pos,
                                  !.context_chars = context_chars]
          /\ result' = extract_context(content, image_pos, context_chars)
    /\ op' = "extract_context"
    /\ UNCHANGED <<content, service>>

CallExtractImageLinks ==
    /\ op = "none"
    /\ op' = "extract_image_links"
    /\ result' = Returned(extract_image_links(content))
    /\ UNCHANGED <<content, args, service>>

\* extract_context at content.find("![["), as test_context_extraction
\* calls it
CallExtractContextAtLink ==
    /\ op = "none"
    /\ \E p \in 0..(Len(content) - 3), context_chars \in 1..TestWindow :
          /\ SubSeq(content, p + 1, p + 3) = <<"!", "[", "[">>
          /\ \A q \in 0..(p - 1) :
                SubSeq(content, q + 1, q + 3) # <<"!", "[", "[">>
          /\ args' = [args EXCEPT !.image_pos = p,
                                  !.context_chars = context_chars]
          /\ result' = extract_context(content, p, context_chars)
    /\ op' = "extract_context"
    /\ UNCHANGED <<content, service>>

Next == CallChunkMarkdown \/ CallExtractHeaders

NextSplit == CallRecursiveSplit

NextSection == CallExtractSectionContext

NextSectionEdge == CallExtractSectionContext

NextContext == CallExtractContext

NextLinks == CallExtractImageLinks

NextLinkContext == CallExtractContextAtLink

Spec == Init /\ [][Next]_vars

SpecSplit == InitSplit /\ [][NextSplit]_vars

SpecSection == InitSection /\ [][NextSection]_vars

SpecSectionEdge == InitSectionEdge /\ [][NextSectionEdge]_vars

SpecContext == InitContext /\ [][NextContext]_vars

SpecLinks == InitLinks /\ [][NextLinks]_vars

SpecLinkContext == InitLinkContext /\ [][NextLinkContext]_vars

----------------------------------------------------------------------------
(* The index service: core/src/search.rs over core/src/db.rs and           *)
(* core/src/embedding.rs.  The embedder and the vector database are        *)
(* outside the repository: a vector is known by the text it was computed   *)
(* for, an embedding request may fail, a new point id is one the           *)
(* collection does not hold, and a search may rank the points in any       *)
(* rotation of the collection.  The timestamp of a point is left out: no   *)
(* operation of the service reads it.                                      *)

MaxPoints == 3      \* points the collection may hold
MaxLimit == 2       \* limit of a search request
MaxFail == 3       \* the embedding request of a call that fails, 0 for none

\* a document on which chunk_markdown panics
PanicDoc == CRLF \o CRLF \o Wide2 \o <<"\n", "#", "a">>

\* documents without and with headings, without and with image links
SvcDocs ==
    {<<>>,
     <<"x", "\n">>,
     <<"!", "[", "[", "a", "]", "]">>,
     <<"#", " ", "a", "\n", "x", "\n">>,
     <<"#", "#", " ", "b", "\n", "!", "[", "b", "]", "(", "c", ")">>,
     <<"#", " ", "a", "\n", "!", "[", "[", "a", "]", "]", "\n",
       "#", "#", " ", "b", "\n">>,
     PanicDoc}

SvcPaths == {<<"n", ".", "m", "d">>}

\* the point_type field of a search request: absent, or a string
PointTypeRequests == {"none", "text", "image", "all"}

SvcQuery == <<"q">>

\* PointType::as_str
as_str(point_type) == IF point_type = "Image" THEN "image" ELSE "text"

\* PointType::from_str
from_str(s) ==
    IF s = "text" THEN "Text" ELSE IF s = "image" THEN "Image" ELSE "None"

\* the embedding of a text
Vector(text) == [of |-> text]

Done(v) == Returned([ok |-> TRUE, out |-> v])
Failed == Returned([ok |-> FALSE, out |-> <<>>])

\* what a call leaves behind: the collection, the result, the texts sent
Outcome(st, res, sent) == [store |-> st, result |-> res, requests |-> sent]

\* encode_batch(texts) when request number fail fails (0: none fails)
encode_batch(texts, fail) ==
    IF fail \in 1..Len(texts)
    THEN [ok |-> FALSE, embeddings |-> <<>>,
          sent |-> SubSeq(texts, 1, fail)]
    ELSE [ok |-> TRUE,
          embeddings |-> [i \in 1..Len(texts) |-> Vector(texts[i])],
          sent |-> texts]

TextsOf(chunks) == [i \in 1..Len(chunks) |-> chunks[i].content]

\* the pairing with the embeddings taken from the last to the first
TextPointsReversed(file_path, chunks, embeddings) ==
    [i \in 1..Min(Len(chunks), Len(embeddings)) |->
        [path |-> file_path, content |-> chunks[i].content,
         point_type |-> "Text",
         embedding |-> embeddings[Len(embeddings) + 1 - i]]]

\* chunks.into_iter().zip(embeddings.into_iter()) mapped to IndexPoint
TextPoints(file_path, chunks, embeddings) ==
    [i \in 1..Min(Len(chunks), Len(embeddings)) |->
        [path |-> file_path, content |-> chunks[i].content,
         point_type |-> "Text", embedding |-> embeddings[i]]]

HasId(st, id) == \E k \in 1..Len(st) : st[k].id = id

\* the largest id of the collection
MaxId(st) ==
    IF st = <<>> THEN 0
    ELSE CHOOSE id \in {st[k].id : k \in 1..Len(st)} :
            \A k \in 1..Len(st) : st[k].id <= id

\* ids that start again with every batch
NewIdPerBatch(st, n) == n

\* Uuid::new_v4(): the n-th new id of a batch
NewId(st, n) == MaxId(st) + n

PointStruct(id, point) ==
    [id |-> id, vector |-> point.embedding,
     payload |-> [path |-> point.path, content |-> point.content,
                  point_type |-> as_str(point.point_type)]]

\* upsert of one point: a point of the same id is replaced
UpsertOne(st, p) ==
    IF HasId(st, p.id)
    THEN [k \in 1..Len(st) |-> IF st[k].id = p.id THEN p ELSE st[k]]
    ELSE Append(st, p)

RECURSIVE upsert_points(_, _)
upsert_points(st, points) ==
    IF points = <<>> THEN st
    ELSE upsert_points(UpsertOne(st, Head(points)), Tail(points))

\* VectorDB::upsert_batch
upsert_batch(st, index_points) ==
    upsert_points(st,
        [i \in 1..Len(index_points) |->
            PointStruct(NewId(st, i), index_points[i])])

\* index_markdown_file once the points are built
IndexFileStored(st, index_points, sent) ==
    Outcome(upsert_batch(st, index_points), Done(Len(index_points)), sent)

IndexFileEmbedded(st, file_path, chunks, emb) ==
    IF ~emb.ok THEN Outcome(st, Failed, emb.sent)
    ELSE IndexFileStored(st, TextPoints(file_path, chunks, emb.embeddings),
                         emb.sent)

IndexFileChunks(st, file_path, chunked, fail) ==
    IF chunked.panic THEN Outcome(st, Panicked, <<>>)
    ELSE IF chunked.value = <<>> THEN Outcome(st, Done(0), <<>>)
    ELSE IndexFileEmbedded(st, file_path, chunked.value,
                           encode_batch(TextsOf(chunked.value), fail))

\* SearchService::index_markdown_file
index_markdown_file(st, file_path, doc, fail) ==
    IndexFileChunks(st, file_path, chunk_markdown(doc), fail)

ImagePoint(link, context) ==
    [path |-> link.path, content |-> context, point_type |-> "Image",
     embedding |-> Vector(context)]

\* the loop over the image links of index_markdown_with_images; fail
\* counts down to the request that fails
RECURSIVE ImageLoop(_, _, _, _, _)
ImageStep(doc, links, points, sent, fail, ctx) ==
    IF ctx.panic THEN [status |-> "panic", points |-> points, sent |-> sent]
    ELSE IF ctx.value = <<>>
    THEN ImageLoop(doc, Tail(links), points, sent, fail)
    ELSE IF fail = 1
    THEN [status |-> "err", points |-> points,
          sent |-> Append(sent, ctx.value)]
    ELSE ImageLoop(doc, Tail(links),
                   Append(points, ImagePoint(Head(links), ctx.value)),
                   Append(sent, ctx.value),
                   IF fail = 0 THEN 0 ELSE fail - 1)

ImageLoop(doc, links, points, sent, fail) ==
    IF links = <<>>
    THEN [status |-> "ok", points |-> points, sent |-> sent]
    ELSE ImageStep(doc, links, points, sent, fail,
                   extract_section_context(doc, Head(links).position))

\* the points embedded so far written although a request failed
WithImagesStoredSoFar(st, text_count, image_count, loop) ==
    IF loop.status = "panic" THEN Outcome(st, Panicked, loop.sent)
    ELSE IF loop.status = "err"
    THEN Outcome(upsert_batch(st, loop.points), Failed, loop.sent)
    ELSE Outcome(IF loop.points # <<>> THEN upsert_batch(st, loop.points)
                 ELSE st,
                 Done(<<text_count, image_count>>), loop.sent)

\* index_markdown_with_images after the loop over the links
WithImagesStored(st, text_count, image_count, loop) ==
    IF loop.status = "panic" THEN Outcome(st, Panicked, loop.sent)
    ELSE IF loop.status = "err" THEN Outcome(st, Failed, loop.sent)
    ELSE Outcome(IF loop.points # <<>> THEN upsert_batch(st, loop.points)
                 ELSE st,
                 Done(<<text_count, image_count>>), loop.sent)

WithImagesLinks(st, doc, text_count, text_points, sent, links, fail) ==
    WithImagesStored(st, text_count, Len(links),
                     ImageLoop(doc, links, text_points, sent, fail))

WithImagesEmbedded(st, file_path, doc, chunks, emb, fail) ==
    IF ~emb.ok THEN Outcome(st, Failed, emb.sent)
    ELSE WithImagesLinks(st, doc, Len(chunks),
                         TextPoints(file_path, chunks, emb.embeddings),
                         emb.sent, extract_image_links(doc),
                         IF fail = 0 THEN 0 ELSE fail - Len(chunks))

WithImagesChunks(st, file_path, doc, chunked, fail) ==
    IF chunked.panic THEN Outcome(st, Panicked, <<>>)
    ELSE WithImagesEmbedded(st, file_path, doc, chunked.value,
                            encode_batch(TextsOf(chunked.value), fail),
                            fail)

\* SearchService::index_markdown_with_images
index_markdown_with_images(st, file_path, doc, fail) ==
    WithImagesChunks(st, file_path, doc, chunk_markdown(doc), fail)

\* the points of the collection ranked from the rank-th on
Ranked(st, rank) ==
    [i \in 1..Len(st) |-> st[((i - 1 + rank) % Len(st)) + 1]]

\* VectorDB::search: the first limit points of the ranking, each read
\* back from its payload; the filter is not used
db_search(st, limit, filter_type, rank) ==
    [i \in 1..Min(limit, Len(st)) |->
        [path |-> Ranked(st, rank)[i].payload.path,
         content |-> Ranked(st, rank)[i].payload.content,
         point_type |->
            IF from_str(Ranked(st, rank)[i].payload.point_type) = "None"
            THEN "Text"
            ELSE from_str(Ranked(st, rank)[i].payload.point_type)]]

\* SearchService::search_semantic
search_semantic(st, query, limit, filter_type, fail, rank) ==
    IF fail = 1 THEN Outcome(st, Failed, <<query>>)
    ELSE Outcome(st, Done(db_search(st, limit, filter_type, rank)),
                 <<query>>)

\* the items of a SearchResponse
SearchItems(results) ==
    [i \in 1..Len(results) |->
        [path |-> results[i].path, content |-> results[i].content,
         point_type |-> as_str(results[i].point_type)]]

SearchResponse(out) ==
    IF out.result.value.ok
    THEN Outcome(out.store, Done(SearchItems(out.result.value.out)),
                 out.requests)
    ELSE out

\* the search handler of api.rs
search(st, query, limit, point_type, fail, rank) ==
    SearchResponse(
        search_semantic(st, query, limit, from_str(point_type), fail, rank))

\* VectorDB::clear_collection
clear_collection(st) == <<>>

\* the counts an index call returned, added up
Counts(name, res) ==
    IF res.panic \/ ~res.value.ok THEN 0
    ELSE IF name = "index_markdown_file" THEN res.value.out
    ELSE res.value.out[1] + res.value.out[2]

Indexed(out, name, file_path, doc) ==
    /\ Len(out.store) <= MaxPoints
    /\ op' = name
    /\ content' = doc
    /\ args' = [NoArgs EXCEPT !.file_path = file_path]
    /\ result' = out.result
    /\ store' = out.store
    /\ requests' = out.requests
    /\ counted' = counted + Counts(name, out.result)

CallIndexMarkdownFile ==
    \E file_path \in SvcPaths, doc \in SvcDocs, fail \in 0..MaxFail :
        Indexed(index_markdown_file(store, file_path, doc, fail),
                "index_markdown_file", file_path, doc)

CallIndexMarkdownWithImages ==
    \E file_path \in SvcPaths, doc \in SvcDocs, fail \in 0..MaxFail :
        Indexed(index_markdown_with_images(store, file_path, doc, fail),
                "index_markdown_with_images", file_path, doc)

Searched(out, point_type, limit) ==
    /\ op' = "search"
    /\ content' = SvcQuery
    /\ args' = [NoArgs EXCEPT !.point_type = point_type, !.limit = limit]
    /\ result' = out.result
    /\ requests' = out.requests
    /\ UNCHANGED <<store, counted>>

CallSearch ==
    \E point_type \in PointTypeRequests, limit \in 1..MaxLimit,
       fail \in 0..1, rank \in 0..Max(Len(store) - 1, 0) :
        Searched(search(store, SvcQuery, limit, point_type, fail, rank),
                 point_type, limit)

CallClearAll ==
    /\ op' = "clear_all"
    /\ content' = <<>>
    /\ args' = NoArgs
    /\ result' = Done(<<>>)
    /\ store' = clear_collection(store)
    /\ requests' = <<>>
    /\ counted' = 0

InitService == Start({<<>>})

NextService ==
    \/ CallIndexMarkdownFile
    \/ CallIndexMarkdownWithImages
    \/ CallSearch
    \/ CallClearAll

SpecService == InitService /\ [][NextService]_vars

----------------------------------------------------------------------------
(* Properties of chunk_markdown, checked under Spec                        *)

ChunkCall == op = "chunk_markdown"
Chunked == ChunkCall /\ ~result.panic

\* the headings of the document under the call, as the scanner reports them
DocHeaders == extract_headers(content)

\* where the claims put the end of heading i's segment: at the next
\* heading, whatever its level, or at the end of the text
NextHeadingOrEnd(i) ==
    IF i < Len(DocHeaders) THEN DocHeaders[i + 1].position ELSE Len(content)

\* the indices of the returned chunks that start inside heading i's segment
ChunksOf(i) ==
    {k \in 1..Len(result.value) :
        /\ DocHeaders[i].position <= result.value[k].start_pos
        /\ result.value[k].start_pos < NextHeadingOrEnd(i)}

SegmentLen(i) == NextHeadingOrEnd(i) - DocHeaders[i].position

\* C1: chunk_markdown returns a chunk sequence, without panicking, for
\* every valid UTF-8 text
ChunkMarkdownTotal == ChunkCall => ~result.panic

\* C2: every returned chunk has at most 850 bytes when the document has a
\* heading and at most 800 when it has none, and a segment over its
\* threshold is returned as sub-parts of at most 800 bytes each
ChunkLengthBounded ==
    Chunked =>
        /\ \A k \in 1..Len(result.value) :
              Len(result.value[k].content)
                  <= (IF DocHeaders = <<>> THEN 800 ELSE 850)
        /\ \A i \in 1..Len(DocHeaders) :
              SegmentLen(i) > 850 =>
                  \A k \in ChunksOf(i) : Len(result.value[k].content) <= 800
        /\ (DocHeaders = <<>> /\ Len(content) > 800) =>
              \A k \in 1..Len(result.value) :
                  Len(result.value[k].content) <= 800

\* a heading segment of more than 850 bytes and a part of exactly 800 bytes
\* came back from the re-split
WitnessChunkLengthBounded ==
    /\ Chunked
    /\ \E i \in 1..Len(DocHeaders) :
          /\ SegmentLen(i) > 850
          /\ Cardinality(ChunksOf(i)) >= 2
          /\ \E k \in ChunksOf(i) : Len(result.value[k].content) = 800

\* C3: the segment of heading i is the byte range from its position to the
\* position of the next heading of any level (or the end of the text), and
\* a segment of at most 850 bytes comes back as exactly one chunk with
\* these bounds
SegmentPerHeading ==
    Chunked =>
        \A i \in 1..Len(DocHeaders) :
            SegmentLen(i) <= 850 =>
                /\ Cardinality(ChunksOf(i)) = 1
                /\ \A k \in ChunksOf(i) :
                      /\ result.value[k].start_pos = DocHeaders[i].position
                      /\ result.value[k].end_pos = NextHeadingOrEnd(i)
                      /\ result.value[k].content =
                            Slice(content, result.value[k].start_pos,
                                  result.value[k].end_pos)

\* "# A\n\nfoo\n\n## B\n\nbar\n" gave two chunks, the first one ending
\* where "## B" begins
WitnessSegmentPerHeading ==
    /\ Chunked
    /\ content = DocTwoSections
    /\ Len(result.value) = 2
    /\ result.value[1].end_pos = 10
    /\ result.value[2].start_pos = 10

\* the heading path of every heading by one pass with one stack: drop the
\* entries whose level >= the heading's level, push the heading, record
RECURSIVE SinglePassPaths(_, _, _)
SinglePassPaths(headers, i, stack) ==
    IF i > Len(headers) THEN <<>>
    ELSE LET open  == SelectSeq(stack,
                          LAMBDA e : e.level < headers[i].level)
             label == [k \in 1..(headers[i].level + 1 + Len(headers[i].text))
                         |-> IF k <= headers[i].level THEN "#"
                             ELSE IF k = headers[i].level + 1 THEN " "
                             ELSE headers[i].text[k - headers[i].level - 1]]
             pushed == Append(open, [level |-> headers[i].level,
                                     label |-> label])
         IN <<[k \in 1..Len(pushed) |-> pushed[k].label]>>
            \o SinglePassPaths(headers, i + 1, pushed)

\* C4: every chunk of heading i's segment carries the path that the single
\* pass records for heading i
HeaderPathSinglePass ==
    Chunked =>
        /\ \A i \in 1..Len(DocHeaders) : \A k \in ChunksOf(i) :
              result.value[k].header_path
                  = SinglePassPaths(DocHeaders, 1, <<>>)[i]
        /\ DocHeaders # <<>> =>
              \A k \in 1..Len(result.value) :
                  \E i \in 1..Len(DocHeaders) : k \in ChunksOf(i)

\* a heading closed an open heading of the same or a deeper level and a
\* later chunk still carries an ancestor
WitnessHeaderPathSinglePass ==
    /\ Chunked
    /\ \E i \in 2..Len(DocHeaders) :
          /\ DocHeaders[i].level <= DocHeaders[i - 1].level
          /\ \E k \in ChunksOf(i) : Len(result.value[k].header_path) >= 2

----------------------------------------------------------------------------
(* Properties of recursive_split, checked under SpecSplit                  *)

SplitCall == op = "recursive_split"

\* the byte length of the widest character of s
WidestChar(s) ==
    IF \E i \in 1..Len(s) : s[i] = "L4" THEN 4
    ELSE IF \E i \in 1..Len(s) : s[i] = "L3" THEN 3
    ELSE IF \E i \in 1..Len(s) : s[i] = "L2" THEN 2
    ELSE 1

\* s is a run of whole characters
WholeChars(s) ==
    \A i \in 1..Len(s) :
        IF s[i] = "cont"
        THEN \E j \in 1..(i - 1) :
                /\ s[j] # "cont"
                /\ i - j < len_utf8(s[j])
                /\ \A l \in (j + 1)..i : s[l] = "cont"
        ELSE /\ i + len_utf8(s[i]) - 1 <= Len(s)
             /\ \A l \in (i + 1)..(i + len_utf8(s[i]) - 1) : s[l] = "cont"

RECURSIVE Concat(_)
Concat(parts) ==
    IF parts = <<>> THEN <<>> ELSE Head(parts) \o Concat(Tail(parts))

\* C6: every part returned by recursive_split(text, max) has at most max
\* bytes, for every max that is at least the byte length of the widest
\* character of the text
PartsBounded ==
    (SplitCall /\ args.max_len >= WidestChar(content)) =>
        \A k \in 1..Len(result.value) : Len(result.value[k]) <= args.max_len

\* for max_len = 800, a line of exactly 800 bytes in a longer text was
\* buffered with its terminator and came back as a part of 800 bytes
WitnessPartsBounded ==
    /\ SplitCall
    /\ Len(content) > args.max_len
    /\ \E l \in 1..Len(lines(content)) :
          /\ Len(lines(content)[l]) = args.max_len
          /\ \E k \in 1..Len(result.value) :
                result.value[k] = lines(content)[l]
    /\ args.max_len = SplitMax

\* C7 as amended: for a non-empty text without line terminator the parts
\* concatenate to the text, and every part is a non-empty run of whole
\* characters
SplitRoundTrip ==
    (/\ SplitCall
     /\ content # <<>>
     /\ \A i \in 1..Len(content) : content[i] # "\n") =>
        /\ Concat(result.value) = content
        /\ \A k \in 1..Len(result.value) :
              result.value[k] # <<>> /\ WholeChars(result.value[k])

\* C7 as stated: the same for every text without line terminator, the
\* empty text included
SplitRoundTripAnyText ==
    (SplitCall /\ \A i \in 1..Len(content) : content[i] # "\n") =>
        /\ Concat(result.value) = content
        /\ \A k \in 1..Len(result.value) :
              result.value[k] # <<>> /\ WholeChars(result.value[k])

\* a text with a character wider than max_len was split into several
\* parts, the wide character a part of its own
WitnessSplitRoundTrip ==
    /\ SplitCall
    /\ \A i \in 1..Len(content) : content[i] # "\n"
    /\ args.max_len < 4
    /\ Len(result.value) >= 3
    /\ \E k \in 1..Len(result.value) : result.value[k] = Wide4

----------------------------------------------------------------------------
(* Properties of extract_section_context, checked under SpecSection and    *)
(* SpecSectionEdge                                                         *)

SectionCall == op = "extract_section_context"

\* the byte offset at which the line that starts at byte p ends
LineEnd(p) ==
    IF NextNewline(content, p + 1) = 0 THEN Len(content)
    ELSE NextNewline(content, p + 1) - 1

\* the headings of the document whose line lies before the offset of the
\* call
HeadersBefore ==
    {i \in 1..Len(DocHeaders) :
        LineEnd(DocHeaders[i].position) <= args.image_pos}

\* where the section of heading h ends: at the first later heading of the
\* same or a shallower level, or at the end of the text
SectionBoundary(h) ==
    LET closers == {j \in (h + 1)..Len(DocHeaders) :
                       DocHeaders[j].level <= DocHeaders[h].level}
    IN IF closers = {} THEN Len(content)
       ELSE DocHeaders[CHOOSE j \in closers :
                           \A l \in closers : j <= l].position

\* C5: with a heading before the offset, extract_section_context returns
\* the text from the nearest preceding heading H to the first later
\* heading whose level is <= H's level, or to the end of the text
SectionContextSpan ==
    (SectionCall /\ HeadersBefore # {}) =>
        LET h == CHOOSE i \in HeadersBefore : \A j \in HeadersBefore : j <= i
        IN /\ ~result.panic
           /\ result.value =
                 Slice(content, DocHeaders[h].position, SectionBoundary(h))

\* C8: extract_section_context returns a text, without panicking, for
\* every byte offset from 0 to the length of the text
SectionContextTotal == SectionCall => ~result.panic

\* C9: the resolver and the header scanner recognise the same heading
\* lines, with the same level and the same start position
SameHeadingRule ==
    (SectionCall /\ args.image_pos = Len(content)) =>
        {<<m.start, m.level>> :
            m \in {captures_iter(content)[k] :
                      k \in 1..Len(captures_iter(content))}}
        = {<<DocHeaders[i].position, DocHeaders[i].level>> :
              i \in 1..Len(DocHeaders)}

----------------------------------------------------------------------------
(* Properties of extract_context, checked under SpecContext                *)

ContextCall == op = "extract_context"

\* the start bytes of the characters of the text
CharStarts == {p \in 0..(Len(content) - 1) : content[p + 1] # "cont"}

\* the start byte of character j (0-based), the length of the text when
\* there is no such character
ByteOfChar(j) ==
    IF j >= Cardinality(CharStarts) THEN Len(content)
    ELSE CHOOSE p \in CharStarts :
             Cardinality({q \in CharStarts : q < p}) = j

\* C10: extract_context returns the characters with indices in
\* [max(0, k - w), min(n, k + w)), k the index of the first character
\* that starts at or after the offset and k = n when there is none
ContextWindow ==
    ContextCall =>
        LET n == Cardinality(CharStarts)
            k == Cardinality({p \in CharStarts : p < args.image_pos})
            w == args.context_chars
        IN /\ ~result.panic
           /\ result.value =
                 Slice(content, ByteOfChar(Max(0, k - w)),
                       ByteOfChar(Min(n, k + w)))

----------------------------------------------------------------------------
(* Further properties of chunk_markdown, checked under Spec                *)

\* the contents of the returned chunks, in order
ChunkContents == [k \in 1..Len(result.value) |-> result.value[k].content]

\* C11: with a heading in the document no chunk covers a byte before the
\* first heading: the smallest start_pos is h[0].position and the chunks
\* hold no more bytes than the text has from there on; without a heading
\* the document is the one segment, from byte 0, and no chunk has a path
NoChunkBeforeFirstHeading ==
    Chunked =>
        /\ DocHeaders # <<>> =>
              /\ result.value # <<>>
              /\ result.value[1].start_pos = DocHeaders[1].position
              /\ \A k \in 1..Len(result.value) :
                    result.value[k].start_pos >= DocHeaders[1].position
              /\ Len(Concat(ChunkContents))
                    <= Len(content) - DocHeaders[1].position
        /\ DocHeaders = <<>> =>
              /\ \A k \in 1..Len(result.value) :
                    result.value[k].header_path = <<>>
              /\ result.value # <<>> => result.value[1].start_pos = 0
              /\ (content # <<>> /\ Len(content) <= 800) =>
                    result.value = <<[content |-> content,
                                      header_path |-> <<>>, start_pos |-> 0,
                                      end_pos |-> Len(content)]>>

\* a document with body text before its first heading was chunked, and the
\* first chunk starts at the heading
WitnessNoChunkBeforeFirstHeading ==
    /\ Chunked
    /\ DocHeaders # <<>>
    /\ DocHeaders[1].position > 0
    /\ content[1] = "x"
    /\ result.value[1].start_pos = DocHeaders[1].position

\* C12: every returned chunk has start_pos <= end_pos <= len(text), the
\* sub-parts of a re-split segment included
PositionsWithinText ==
    Chunked =>
        \A k \in 1..Len(result.value) :
            /\ 0 <= result.value[k].start_pos
            /\ result.value[k].start_pos <= result.value[k].end_pos
            /\ result.value[k].end_pos <= Len(content)

\* a heading segment over 850 bytes came back as several sub-parts, and
\* trimming left the last of them short of the end of the text
WitnessPositionsWithinText ==
    /\ Chunked
    /\ \E i \in 1..Len(DocHeaders) :
          /\ SegmentLen(i) > 850
          /\ Cardinality(ChunksOf(i)) >= 2
          /\ i = Len(DocHeaders)
    /\ result.value[Len(result.value)].end_pos < Len(content)

\* C13: a chunk of an un-split segment (heading segment of at most 850
\* bytes, header-free document of at most 800) has content equal to
\* text[start_pos .. end_pos], byte for byte
ExactContentWhenUnsplit ==
    Chunked =>
        /\ (DocHeaders = <<>> /\ Len(content) <= 800) =>
              \A k \in 1..Len(result.value) :
                  result.value[k].content =
                      Slice(content, result.value[k].start_pos,
                            result.value[k].end_pos)
        /\ \A i \in 1..Len(DocHeaders) :
              SegmentLen(i) <= 850 =>
                  \A k \in ChunksOf(i) :
                      /\ result.value[k].content =
                            Slice(content, result.value[k].start_pos,
                                  result.value[k].end_pos)
                      /\ Len(result.value[k].content) =
                            result.value[k].end_pos
                                - result.value[k].start_pos

\* an un-split heading segment kept its "\r\n" terminator in the content
WitnessExactContentWhenUnsplit ==
    /\ Chunked
    /\ Len(DocHeaders) >= 2
    /\ SegmentLen(1) <= 850
    /\ Len(result.value[1].content) >= 2
    /\ result.value[1].content[Len(result.value[1].content)] = "\n"
    /\ result.value[1].content[Len(result.value[1].content) - 1] = "\r"

\* the headings up to i that no later heading up to i has closed
OpenAt(i) ==
    {j \in 1..i :
        \A l \in (j + 1)..i : DocHeaders[l].level > DocHeaders[j].level}

\* C14: in every header_path the levels strictly increase, the last entry
\* is the chunk's own heading, and the length is the number of headings
\* still open at that heading, itself included
HeaderPathNesting ==
    Chunked =>
        \A i \in 1..Len(DocHeaders) : \A k \in ChunksOf(i) :
            LET path == result.value[k].header_path IN
            /\ \A j \in 1..(Len(path) - 1) :
                  CountLeading(path[j], "#") < CountLeading(path[j + 1], "#")
            /\ path # <<>>
            /\ path[Len(path)] =
                  Repeat("#", DocHeaders[i].level) \o <<" ">>
                      \o DocHeaders[i].text
            /\ Len(path) = Cardinality(OpenAt(i))

\* a heading under two open ancestors was followed by a shallower heading
\* that closed two entries and kept one ancestor
WitnessHeaderPathNesting ==
    /\ Chunked
    /\ \E i \in 2..Len(DocHeaders) :
          /\ Cardinality(OpenAt(i - 1)) = 3
          /\ Cardinality(OpenAt(i)) = 2
          /\ \E k \in ChunksOf(i) : Len(result.value[k].header_path) = 2

----------------------------------------------------------------------------
(* Properties of the header scanner, checked under Spec                    *)

HeadersCall == op = "extract_headers"

DocLines == lines(content)

\* the line without its leading whitespace
Unindented(idx) ==
    SubSeq(DocLines[idx], LeadingWhitespace(DocLines[idx]) + 1,
           Len(DocLines[idx]))

\* a candidate heading line: its first character after leading whitespace
\* is the heading marker
Candidate(idx) == Unindented(idx) # <<>> /\ Unindented(idx)[1] = "#"

\* the number of markers a candidate line starts with
MarkerRun(idx) == CountLeading(Unindented(idx), "#")

\* a candidate line with nothing but whitespace after its markers
EmptyLabel(idx) ==
    LET line == Unindented(idx) IN
    /\ line # <<>>
    /\ line[1] = "#"
    /\ \A j \in 1..Len(line) : line[j] \in Whitespace \cup {"#"}
    /\ \A j \in 1..(Len(line) - 1) :
          line[j] \in Whitespace => line[j + 1] \in Whitespace

\* for every line its heading level, 0 when it is not a heading: the
\* headings are the candidates with a label
LineLevels ==
    [idx \in 1..Len(DocLines) |->
        IF Candidate(idx) /\ ~EmptyLabel(idx) THEN MarkerRun(idx) ELSE 0]

EmptyLabelLines == {idx \in 1..Len(DocLines) : EmptyLabel(idx)}

HeadingLines(lv) == {idx \in DOMAIN lv : lv[idx] > 0}

\* the line of the i-th heading of the document
HeadingLine(lv, i) ==
    CHOOSE idx \in HeadingLines(lv) :
        Cardinality({j \in HeadingLines(lv) : j <= idx}) = i

\* the heading lines still open at heading line idx, itself included
OpenHeadingLines(lv, idx) ==
    {j \in HeadingLines(lv) :
        /\ j <= idx
        /\ \A l \in HeadingLines(lv) : (j < l /\ l <= idx) => lv[l] > lv[j]}

----------------------------------------------------------------------------
(* Properties of extract_image_links, checked under SpecLinks              *)

LinksCall == op = "extract_image_links"

\* the links of one pass over the document, as the loop pushes them
PassLinks(kind) == LinksFrom(kind, content, 0)

\* the text at the position of a returned link reads as the link's syntax
\* with the link's path
ReadsAsLink(l) ==
    LET at == SubSeq(content, l.position + 1, Len(content)) IN
    /\ l.path # <<>>
    /\ l.context = <<>>
    /\ IF l.syntax_type = "Obsidian"
       THEN /\ \A j \in 1..Len(l.path) : l.path[j] # "]"
            /\ SubSeq(at, 1, Len(l.path) + 5)
                  = <<"!", "[", "[">> \o l.path \o <<"]", "]">>
       ELSE /\ l.syntax_type = "Markdown"
            /\ \A j \in 1..Len(l.path) : l.path[j] # ")"
            /\ \E n \in 0..Len(at) :
                  /\ \A j \in 3..(n + 2) : at[j] # "]"
                  /\ SubSeq(at, 1, 2) = <<"!", "[">>
                  /\ SubSeq(at, n + 3, n + Len(l.path) + 5)
                        = <<"]", "(">> \o l.path \o <<")">>

\* C16: the result holds every match of the embed-style pass and every
\* match of the inline-style pass and nothing else, each with the position
\* of its match start, its path and its syntax kind, overlapping matches
\* included, and is sorted in ascending order of position
LinksCompleteAndSorted ==
    LinksCall =>
        /\ Len(result.value)
              = Len(PassLinks("Obsidian")) + Len(PassLinks("Markdown"))
        /\ \A kind \in {"Obsidian", "Markdown"} :
              \A j \in 1..Len(PassLinks(kind)) :
                  \E k \in 1..Len(result.value) :
                      result.value[k] = PassLinks(kind)[j]
        /\ \A k \in 1..Len(result.value) : ReadsAsLink(result.value[k])
        /\ \A k \in 1..(Len(result.value) - 1) :
              result.value[k].position <= result.value[k + 1].position

\* an embed-style link inside the path of an inline-style link: both were
\* returned, the inline-style link first
WitnessLinksCompleteAndSorted ==
    /\ LinksCall
    /\ \E k \in 1..(Len(result.value) - 1) :
          /\ result.value[k].syntax_type = "Markdown"
          /\ result.value[k + 1].syntax_type = "Obsidian"
          /\ result.value[k].path
                = <<"!", "[", "[">> \o result.value[k + 1].path
                    \o <<"]", "]">>
          /\ result.value[k + 1].position = result.value[k].position + 5

----------------------------------------------------------------------------
(* Properties of extract_context at an image link, checked under           *)
(* SpecLinkContext                                                         *)

\* the byte after the closing delimiter of the embed-style link that
\* starts at the offset of the call
LinkEndByte == NextOf(content, args.image_pos + 1, "]") + 1

\* C17: called at the start of an image link, extract_context returns text
\* from both sides of the link; with 8 characters before the link, a link
\* of 14 characters and a window of 10, the first five characters after
\* the link are in the result
LinkContextBothSides ==
    (/\ ContextCall
     /\ args.context_chars = TestWindow
     /\ args.image_pos = 8 * Len(Wide3)
     /\ Len(content) >= args.image_pos + Len(TestLink)
     /\ SubSeq(content, args.image_pos + 1, args.image_pos + Len(TestLink))
           = TestLink
     /\ Len(content) >= LinkEndByte + 5 * Len(Wide3)) =>
        /\ ~result.panic
        /\ \E a \in 0..(args.image_pos - 1), b \in 0..Len(content) :
              /\ b >= LinkEndByte + 5 * Len(Wide3)
              /\ result.value = Slice(content, a, b)

\* C18: a header-free document of n > 800 copies of one ASCII character on
\* a single line comes back as ceil(n / 800) chunks that tile [0, n) in
\* steps of 800 bytes, each with its slice of the text as content and an
\* empty header_path, so that the contents concatenate to the document
IdenticalRunTiled ==
    (/\ ChunkCall
     /\ Len(content) > 800
     /\ content[1] \notin {"\n", "\r", "L2", "L3", "L4", "cont"}
     /\ \A i \in 1..Len(content) : content[i] = content[1]) =>
        /\ ~result.panic
        /\ Len(result.value) = (Len(content) + 799) \div 800
        /\ \A k \in 1..Len(result.value) :
              /\ result.value[k].start_pos = 800 * (k - 1)
              /\ result.value[k].end_pos = Min(800 * k, Len(content))
              /\ result.value[k].content =
                    Slice(content, 800 * (k - 1), Min(800 * k, Len(content)))
              /\ result.value[k].header_path = <<>>
        /\ Concat(ChunkContents) = content

\* 2000 copies of "a" came back as chunks of 800, 800 and 400 bytes
WitnessIdenticalRunTiled ==
    /\ Chunked
    /\ content = Repeat("a", 2000)
    /\ Len(result.value) = 3
    /\ Len(result.value[1].content) = 800
    /\ Len(result.value[2].content) = 800
    /\ Len(result.value[3].content) = 400

\* C20: chunk_markdown("") returns the empty sequence
EmptyTextNoChunks ==
    (ChunkCall /\ content = <<>>) => (~result.panic /\ result.value = <<>>)

\* chunk_markdown was called on the empty text
WitnessEmptyTextNoChunks ==
    /\ ChunkCall
    /\ content = <<>>
    /\ result = Returned(<<>>)

----------------------------------------------------------------------------
(* Further properties of extract_section_context, checked under            *)
(* SpecSectionEdge                                                         *)

\* C19: when no heading line starts before the offset,
\* extract_section_context returns the whole document
SectionWholeWithoutHeading ==
    (/\ SectionCall
     /\ is_char_boundary(content, args.image_pos)
     /\ \A i \in 1..Len(DocHeaders) :
           DocHeaders[i].position >= args.image_pos) =>
        /\ ~result.panic
        /\ result.value = content

----------------------------------------------------------------------------
(* Properties of the positions and contents of sub-parts, checked under    *)
(* Spec                                                                    *)

\* the chunks with indices in ks are laid end to end from byte from on and
\* stop at or before byte to
LaidEndToEnd(ks, from, to) ==
    \A k \in ks :
        /\ result.value[k].end_pos - result.value[k].start_pos
              = Len(result.value[k].content)
        /\ result.value[k].end_pos <= to
        /\ IF k - 1 \in ks
           THEN result.value[k].start_pos = result.value[k - 1].end_pos
           ELSE result.value[k].start_pos = from

\* C25: the sub-parts of a re-split segment are laid end to end from the
\* segment's start (the heading position, or 0), each as long as its
\* content, and end at or before the segment's end; chunks of consecutive
\* segments do not overlap and start_pos never decreases
SubPartsCumulative ==
    Chunked =>
        /\ \A i \in 1..Len(DocHeaders) :
              SegmentLen(i) > 850 =>
                  /\ ChunksOf(i) # {}
                  /\ \A k \in ChunksOf(i) : \A l \in ChunksOf(i) :
                        \A m \in k..l : m \in ChunksOf(i)
                  /\ LaidEndToEnd(ChunksOf(i), DocHeaders[i].position,
                                  NextHeadingOrEnd(i))
        /\ (DocHeaders = <<>> /\ Len(content) > 800) =>
              LaidEndToEnd(1..Len(result.value), 0, Len(content))
        /\ \A k \in 1..(Len(result.value) - 1) :
              /\ result.value[k].end_pos <= result.value[k + 1].start_pos
              /\ result.value[k].start_pos <= result.value[k + 1].start_pos

\* a re-split heading segment with several sub-parts, the last of them
\* ending before the segment does, was followed by another segment
WitnessSubPartsCumulative ==
    /\ Chunked
    /\ \E i \in 1..(Len(DocHeaders) - 1) :
          /\ SegmentLen(i) > 850
          /\ Cardinality(ChunksOf(i)) >= 2
          /\ \E k \in ChunksOf(i) :
                /\ k + 1 \notin ChunksOf(i)
                /\ result.value[k].end_pos < result.value[k + 1].start_pos

\* C26: every returned chunk has non-empty content, and so start_pos <
\* end_pos
ChunksNonEmpty ==
    Chunked =>
        \A k \in 1..Len(result.value) :
            /\ result.value[k].content # <<>>
            /\ result.value[k].start_pos < result.value[k].end_pos

----------------------------------------------------------------------------
(* Properties of the index service, checked under SpecService              *)

SearchCall == op = "search" /\ ~result.panic /\ result.value.ok

\* C21: a search made with point_type "text" or "image" returns only
\* results of that point type
FilteredSearchReturnsThatType ==
    (SearchCall /\ args.point_type \in {"text", "image"}) =>
        \A i \in 1..Len(result.value.out) :
            result.value.out[i].point_type = args.point_type

IndexFileDone ==
    op = "index_markdown_file" /\ ~result.panic /\ result.value.ok

WithImagesDone ==
    op = "index_markdown_with_images" /\ ~result.panic /\ result.value.ok

IndexFailed ==
    /\ op \in {"index_markdown_file", "index_markdown_with_images"}
    /\ ~result.panic
    /\ ~result.value.ok

\* the collection after the call is the collection before it followed by
\* one Text record for each of the chunks c, in their order
AppendsTextRecords(before, after, path, c) ==
    /\ Len(after) = Len(before) + Len(c)
    /\ SubSeq(after, 1, Len(before)) = before
    /\ \A i \in 1..Len(c) :
          /\ after[Len(before) + i].payload =
                [path |-> path, content |-> c[i].content,
                 point_type |-> "text"]
          /\ after[Len(before) + i].vector = Vector(c[i].content)

\* C22: a successful index_markdown_file on a document with chunks
\* c[0..m) adds exactly m Text records, the i-th with the path of the
\* file, the content of c[i] and the vector the embedder returned for
\* that content, in chunk order, and returns m; with no chunk it returns 0
\* and neither the embedder nor the store is called
PairsChunksWithVectors ==
    [][IndexFileDone' =>
          /\ result'.value.out = Len(chunk_markdown(content').value)
          /\ AppendsTextRecords(store, store', args'.file_path,
                                chunk_markdown(content').value)
          /\ requests' = [i \in 1..result'.value.out |->
                            chunk_markdown(content').value[i].content]
          /\ result'.value.out = 0 => (requests' = <<>> /\ store' = store)
      ]_vars

WitnessPairsChunksWithVectors ==
    /\ IndexFileDone
    /\ result.value.out = 2
    /\ Len(store) = 3
    /\ store[2].payload.content # store[3].payload.content

\* C23: when an embedding request fails during index_markdown_file or
\* index_markdown_with_images, the call returns an error and the store is
\* the same as before the call
FailedIndexWritesNothing ==
    [][IndexFailed' => store' = store]_vars

WitnessFailedIndexWritesNothing ==
    /\ op = "index_markdown_with_images"
    /\ ~result.panic
    /\ ~result.value.ok
    /\ Len(requests) > Len(chunk_markdown(content).value)
    /\ store # <<>>

ImageRecords(points) ==
    {k \in 1..Len(points) : points[k].payload.point_type = "image"}

\* C24: the store holds as many points as the index calls since the last
\* clear_all returned in counts, all under different ids, and a
\* successful index_markdown_with_images added one Image record for
\* every image link of the document
StoreHoldsEveryCountedPoint ==
    /\ Len(store) = counted
    /\ \A j \in 1..Len(store) : \A k \in 1..Len(store) :
          j # k => store[j].id # store[k].id
    /\ WithImagesDone =>
          /\ result.value.out[1] = Len(chunk_markdown(content).value)
          /\ result.value.out[2] = Len(extract_image_links(content))
          /\ result.value.out[1] + result.value.out[2] <= Len(store)
          /\ Cardinality(
                {k \in ImageRecords(store) :
                    k > Len(store) - result.value.out[2]})
                = result.value.out[2]
          /\ \A k \in 1..Len(store) :
                (/\ k > Len(store) - result.value.out[2]
                                  - result.value.out[1]
                 /\ k <= Len(store) - result.value.out[2])
                => store[k].payload.point_type = "text"

WitnessStoreHoldsEveryCountedPoint ==
    /\ WithImagesDone
    /\ result.value.out[2] = 1
    /\ \E j \in 1..Len(store) : \E k \in 1..Len(store) :
          j < k /\ store[j].payload = store[k].payload

====
